---- MODULE Spec2Model ----
(***************************************************************************)
(* Optics of fp-go as they are used in this repository:                    *)
(*   - the lens fixtures of optics/lens/testing (Street, Address and the   *)
(*     lenses streetLens, addrLens and their composition), on a heap of    *)
(*     records reached through pointers;                                   *)
(*   - the flag prisms of urfave/cli (AsString .. AsStringSlice) over the  *)
(*     Flag interface.                                                     *)
(* A pointer is an index into the heap of its type; 0 is the nil pointer.  *)
(***************************************************************************)
EXTENDS Integers, Sequences, FiniteSets, TLC

VARIABLES streets, addrs, flags, last, panicked,
          calls, io, cmds, builders, trace, built, lenses, threads

vars == <<streets, addrs, flags, last, panicked,
          calls, io, cmds, builders, trace, built, lenses, threads>>

\* the state of the optics: the lens fixtures and the flags
opticVars == <<streets, addrs, flags, panicked>>

\* the state of the actions and of the command builders
actionVars == <<calls, io>>
builderVars == <<cmds, builders, trace, built>>

(***************************************************************************)
(* Bounds of the model.                                                    *)
(***************************************************************************)
\* the records on the heap, streets and addresses together
MaxCells == 7
MaxFlags == 1

Nil == 0

(***************************************************************************)
(* Fixture values of the lens tests.                                       *)
(***************************************************************************)
sampleStreet == [num |-> 220, name |-> "Schoenaicherstr"]
sampleStreet2 == [num |-> 220, name |-> "Neue Str"]
sampleAddress == [city |-> "Boeblingen", street |-> 1]

\* candidate parts of streetLens: the fixture names and the name the tests set
Names == {"Schoenaicherstr", "Neue Str", "Neue Str."}

\* candidate parts of addrLens: no street, &sampleStreet and &sampleStreet2
StreetParts == {Nil, 1, 2}

\* the heap as one value: st holds the Street records, ad the Address records
Heap == [st |-> streets, ad |-> addrs]

StreetPtrs(H) == 1..Len(H.st)
AddrPtrs(H) == 1..Len(H.ad)

(***************************************************************************)
(* The accessors of the fixture types.  The setters assign through their   *)
(* pointer receiver and return the receiver.                               *)
(***************************************************************************)
GetName(H, street) == H.st[street].name

\* a setter that forgets the assignment
SetName_noAssign(H, street, name) == [heap |-> H, ret |-> street]

\* a setter that counts its calls in num
SetName_counting(H, street, name) ==
    [heap |-> [H EXCEPT !.st[street].name = name, !.st[street].num = @ + 1],
     ret |-> street]

SetName(H, street, name) ==
    [heap |-> [H EXCEPT !.st[street].name = name], ret |-> street]

\* a getter that returns no street
GetStreet_nil(H, addr) == Nil

GetStreet(H, addr) == H.ad[addr].street

\* a setter that forgets the assignment
SetStreet_noAssign(H, addr, s) == [heap |-> H, ret |-> addr]

\* a setter that assigns the record pointed to (*addr.street = *s) instead of
\* the pointer
SetStreet_deref(H, addr, s) ==
    IF s # Nil /\ H.ad[addr].street # Nil
    THEN [heap |-> [H EXCEPT !.st[H.ad[addr].street] = H.st[s]], ret |-> addr]
    ELSE [heap |-> [H EXCEPT !.ad[addr].street = s], ret |-> addr]

\* a setter that builds the address anew and forgets the city
SetStreet_clobber(H, addr, s) ==
    [heap |-> [H EXCEPT !.ad[addr] = [city |-> "", street |-> s]], ret |-> addr]

SetStreet(H, addr, s) ==
    [heap |-> [H EXCEPT !.ad[addr].street = s], ret |-> addr]

(***************************************************************************)
(* MakeLensRef(get, set): get is the getter, set copies the record the     *)
(* pointer refers to and applies the setter to the address of the copy.    *)
(***************************************************************************)
\* a copy that is the pointer itself
copyStreet_alias(H, s) == [heap |-> H, ret |-> s]

copyStreet(H, s) ==
    [heap |-> [H EXCEPT !.st = Append(@, H.st[s])], ret |-> Len(H.st) + 1]

copyAddress(H, s) ==
    [heap |-> [H EXCEPT !.ad = Append(@, H.ad[s])], ret |-> Len(H.ad) + 1]

streetLensGet(H, s) == GetName(H, s)

streetLensSet(H, a, s) ==
    LET cpy == copyStreet(H, s)
    IN  SetName(cpy.heap, cpy.ret, a)

addrLensGet(H, s) == GetStreet(H, s)

addrLensSet(H, a, s) ==
    LET cpy == copyAddress(H, s)
    IN  SetStreet(cpy.heap, cpy.ret, a)

(***************************************************************************)
(* streetName = Compose(streetLens)(addrLens): addrLens is the outer lens, *)
(* streetLens the inner one.                                               *)
(***************************************************************************)
streetNameGet(H, s) == streetLensGet(H, addrLensGet(H, s))

streetNameSet(H, b, s) ==
    LET inner == streetLensSet(H, b, addrLensGet(H, s))
    IN  addrLensSet(inner.heap, inner.ret, s)

(***************************************************************************)
(* The equality of the tests: two pointers are equal when the records they *)
(* point to are equal, pointers inside the records being followed.         *)
(***************************************************************************)
valStreet(H, p) == IF p = Nil THEN <<"nil">> ELSE <<"ref", H.st[p]>>

valAddress(H, p) ==
    IF p = Nil THEN <<"nil">>
    ELSE <<"ref", H.ad[p].city, valStreet(H, H.ad[p].street)>>

eqStreet(H, p, q) == valStreet(H, p) = valStreet(H, q)

eqAddress(H, p, q) == valAddress(H, p) = valAddress(H, q)

(***************************************************************************)
(* The initial state: the package-level fixtures, no flag, no call made.   *)
(***************************************************************************)
NoCall == [op |-> "none"]

\* no IOResult is held, no lenses are chosen, no thread runs
NoIO == [t |-> "none"]
NoLenses == <<>>
NoThreads == <<>>

Init ==
    /\ streets = <<sampleStreet, sampleStreet2>>
    /\ addrs = <<sampleAddress>>
    /\ flags = <<>>
    /\ last = NoCall
    /\ panicked = FALSE
    /\ calls = <<>>
    /\ io = NoIO
    /\ cmds = <<>>
    /\ builders = <<>>
    /\ trace = <<>>
    /\ built = {}
    /\ lenses = NoLenses
    /\ threads = NoThreads

(***************************************************************************)
(* Calls through the lenses.  Every call records itself in last.           *)
(***************************************************************************)
StreetGet(s) ==
    /\ ~panicked
    /\ UNCHANGED <<actionVars, builderVars, lenses, threads>>
    /\ last' = [op |-> "streetLens.Get", s |-> s, r |-> streetLensGet(Heap, s)]
    /\ UNCHANGED <<streets, addrs, flags, panicked>>

StreetSet(a, s) ==
    /\ ~panicked
    /\ UNCHANGED <<actionVars, builderVars, lenses, threads>>
    /\ Len(streets) + Len(addrs) < MaxCells
    /\ LET res == streetLensSet(Heap, a, s)
       IN  /\ streets' = res.heap.st
           /\ addrs' = res.heap.ad
           /\ last' = [op |-> "streetLens.Set", s |-> s, a |-> a, r |-> res.ret]
    /\ UNCHANGED <<flags, panicked>>

AddrGet(s) ==
    /\ ~panicked
    /\ UNCHANGED <<actionVars, builderVars, lenses, threads>>
    /\ last' = [op |-> "addrLens.Get", s |-> s, r |-> addrLensGet(Heap, s)]
    /\ UNCHANGED <<streets, addrs, flags, panicked>>

AddrSet(a, s) ==
    /\ ~panicked
    /\ UNCHANGED <<actionVars, builderVars, lenses, threads>>
    /\ Len(streets) + Len(addrs) < MaxCells
    /\ LET res == addrLensSet(Heap, a, s)
       IN  /\ streets' = res.heap.st
           /\ addrs' = res.heap.ad
           /\ last' = [op |-> "addrLens.Set", s |-> s, a |-> a, r |-> res.ret]
    /\ UNCHANGED <<flags, panicked>>

\* GetName and the copy of the inner set dereference the street of the
\* address: on an address without a street the call panics
StreetNameGet(s) ==
    /\ ~panicked
    /\ UNCHANGED <<actionVars, builderVars, lenses, threads>>
    /\ IF GetStreet(Heap, s) = Nil
       THEN /\ panicked' = TRUE
            /\ last' = [op |-> "streetName.Get", s |-> s]
       ELSE /\ panicked' = FALSE
            /\ last' = [op |-> "streetName.Get", s |-> s,
                        r |-> streetNameGet(Heap, s)]
    /\ UNCHANGED <<streets, addrs, flags>>

StreetNameSet(b, s) ==
    /\ ~panicked
    /\ UNCHANGED <<actionVars, builderVars, lenses, threads>>
    /\ Len(streets) + Len(addrs) + 2 <= MaxCells
    /\ IF GetStreet(Heap, s) = Nil
       THEN /\ panicked' = TRUE
            /\ last' = [op |-> "streetName.Set", s |-> s, a |-> b]
            /\ UNCHANGED <<streets, addrs>>
       ELSE LET res == streetNameSet(Heap, b, s)
            IN  /\ panicked' = FALSE
                /\ streets' = res.heap.st
                /\ addrs' = res.heap.ad
                /\ last' = [op |-> "streetName.Set", s |-> s, a |-> b,
                            r |-> res.ret]
    /\ UNCHANGED flags

NextLens ==
    \/ \E s \in StreetPtrs(Heap) : StreetGet(s)
    \/ \E s \in StreetPtrs(Heap), a \in Names : StreetSet(a, s)
    \/ \E s \in AddrPtrs(Heap) : AddrGet(s)
    \/ \E s \in AddrPtrs(Heap), a \in StreetParts : AddrSet(a, s)
    \/ \E s \in AddrPtrs(Heap) : StreetNameGet(s)
    \/ \E s \in AddrPtrs(Heap), b \in Names : StreetNameSet(b, s)

SpecLens == Init /\ [][NextLens]_vars

(***************************************************************************)
(* Flags.  A flag is an object of one of the concrete flag types of        *)
(* urfave/cli behind the Flag interface; the nil Flag is the pointer 0.    *)
(* Value is the default of the flag; once the flag is applied (PreParse or *)
(* a parsed argument) it holds a current value cur; hasBeenSet tells that  *)
(* an argument gave the flag its value.                                    *)
(***************************************************************************)
FlagTypes == {"StringFlag", "BoolFlag", "IntFlag", "Int64Flag", "Float64Flag",
              "DurationFlag", "StringSliceFlag"}

\* the Go type of the value of each flag type
valueType ==
    [StringFlag |-> "string", BoolFlag |-> "bool", IntFlag |-> "int",
     Int64Flag |-> "int64", Float64Flag |-> "float64",
     DurationFlag |-> "time.Duration", StringSliceFlag |-> "[]string"]

\* the values of each Go type that the model draws from; int, int64 and
\* time.Duration share their numbers
Vals(type) ==
    CASE type = "string" -> {"", "hello"}
      [] type = "bool" -> BOOLEAN
      [] type = "float64" -> {"0.5", "3.14"}
      [] type = "[]string" -> {<<>>, <<"a", "b">>}
      [] OTHER -> {0, 42}

FlagNames == {"", "name"}

\* Flag.Get: the current value of an applied flag, the default of a fresh
\* one, as a value of interface type (dynamic type and value)
Get(F, f) ==
    [type |-> valueType[F[f].kind],
     val |-> IF F[f].applied THEN F[f].cur ELSE F[f].Value]

Some(v) == <<"Some", v>>
None == <<"None">>

Prisms == {"AsString", "AsBool", "AsInt", "AsInt64", "AsFloat64",
           "AsDuration", "AsStringSlice"}

\* the type T of Prism[Flag, T], which is the type GetOption asserts
FocusType ==
    [AsString |-> "string", AsBool |-> "bool", AsInt |-> "int",
     AsInt64 |-> "int64", AsFloat64 |-> "float64",
     AsDuration |-> "time.Duration", AsStringSlice |-> "[]string"]

\* the kind of number behind a type, as reflection reports it
kindOf(type) == IF type = "time.Duration" THEN "int64" ELSE type

\* a GetOption that compares the kind of the value instead of its type
GetOption_byKind(P, F, f) ==
    LET x == Get(F, f)
    IN  IF kindOf(x.type) = kindOf(FocusType[P]) THEN Some(x.val) ELSE None

\* GetOption of the prism P: the type assertion f.Get().(T)
GetOption(P, F, f) ==
    LET x == Get(F, f)
    IN  IF x.type = FocusType[P] THEN Some(x.val) ELSE None

\* AsDuration building a flag of the underlying int64
builtFlag_int64 ==
    [AsString |-> "StringFlag", AsBool |-> "BoolFlag", AsInt |-> "IntFlag",
     AsInt64 |-> "Int64Flag", AsFloat64 |-> "Float64Flag",
     AsDuration |-> "Int64Flag", AsStringSlice |-> "StringSliceFlag"]

\* the flag type that ReverseGet of each prism builds
builtFlag ==
    [AsString |-> "StringFlag", AsBool |-> "BoolFlag", AsInt |-> "IntFlag",
     AsInt64 |-> "Int64Flag", AsFloat64 |-> "Float64Flag",
     AsDuration |-> "DurationFlag", AsStringSlice |-> "StringSliceFlag"]

\* the object of a flag literal: the fields given, the flag not applied
newFlag(kind, name, value) ==
    [kind |-> kind, Name |-> name, Value |-> value, applied |-> FALSE,
     cur |-> value, hasBeenSet |-> FALSE]

\* a ReverseGet that puts its argument in the wrong field and leaves Value
\* the zero value
ReverseGet_noValue(P, F, a) ==
    LET zero == CHOOSE v \in Vals(FocusType[P]) :
                   v \in {"", FALSE, 0, "0.5", <<>>}
    IN  [heap |-> Append(F, newFlag(builtFlag[P], "", zero)),
         ret |-> Len(F) + 1]

\* ReverseGet of the prism P: a new flag with only Value set
ReverseGet(P, F, a) ==
    [heap |-> Append(F, newFlag(builtFlag[P], "", a)), ret |-> Len(F) + 1]

(***************************************************************************)
(* Operations on flags.                                                    *)
(***************************************************************************)
\* a flag literal, as the callers and the tests write it
NewFlag(kind, name, value) ==
    /\ ~panicked
    /\ UNCHANGED <<actionVars, builderVars, lenses, threads>>
    /\ Len(flags) < MaxFlags
    /\ flags' = Append(flags, newFlag(kind, name, value))
    /\ last' = [op |-> "NewFlag", r |-> Len(flags) + 1]
    /\ UNCHANGED <<streets, addrs, panicked>>

\* PreParse applies the flag with its default
PreParse(f) ==
    /\ ~panicked
    /\ UNCHANGED <<actionVars, builderVars, lenses, threads>>
    /\ ~flags[f].applied
    /\ flags' = [flags EXCEPT ![f].applied = TRUE, ![f].cur = flags[f].Value]
    /\ last' = [op |-> "PreParse", s |-> f]
    /\ UNCHANGED <<streets, addrs, panicked>>

\* running a command with an argument for the flag gives it the parsed value
ParseArg(f, v) ==
    /\ ~panicked
    /\ UNCHANGED <<actionVars, builderVars, lenses, threads>>
    /\ flags' = [flags EXCEPT ![f].applied = TRUE, ![f].cur = v,
                               ![f].hasBeenSet = TRUE]
    /\ last' = [op |-> "ParseArg", s |-> f, a |-> v]
    /\ UNCHANGED <<streets, addrs, panicked>>

ReverseGetCall(P, a) ==
    /\ ~panicked
    /\ UNCHANGED <<actionVars, builderVars, lenses, threads>>
    /\ Len(flags) < MaxFlags
    /\ LET res == ReverseGet(P, flags, a)
       IN  /\ flags' = res.heap
           /\ last' = [op |-> "ReverseGet", prism |-> P, a |-> a, r |-> res.ret]
    /\ UNCHANGED <<streets, addrs, panicked>>

\* f.Get() on the nil Flag is a call on a nil interface: the call panics
GetOptionCall(P, f) ==
    /\ ~panicked
    /\ UNCHANGED <<actionVars, builderVars, lenses, threads>>
    /\ IF f = Nil
       THEN /\ panicked' = TRUE
            /\ last' = [op |-> "GetOption", prism |-> P, s |-> f]
       ELSE /\ panicked' = FALSE
            /\ last' = [op |-> "GetOption", prism |-> P, s |-> f,
                        r |-> GetOption(P, flags, f)]
    /\ UNCHANGED <<streets, addrs, flags>>

\* the round trip of the tests: rev := p.ReverseGet(a); got := p.GetOption(rev)
RoundTrip(P, a) ==
    /\ ~panicked
    /\ UNCHANGED <<actionVars, builderVars, lenses, threads>>
    /\ Len(flags) < MaxFlags
    /\ LET rev == ReverseGet(P, flags, a)
       IN  /\ flags' = rev.heap
           /\ last' = [op |-> "RoundTrip", prism |-> P, a |-> a,
                       rev |-> rev.ret,
                       r |-> GetOption(P, rev.heap, rev.ret)]
    /\ UNCHANGED <<streets, addrs, panicked>>

NextPrism ==
    \/ \E kind \in FlagTypes, name \in FlagNames :
          \E value \in Vals(valueType[kind]) : NewFlag(kind, name, value)
    \/ \E f \in 1..Len(flags) : PreParse(f)
    \/ \E f \in 1..Len(flags) :
          \E v \in Vals(valueType[flags[f].kind]) : ParseArg(f, v)
    \/ \E P \in Prisms : \E a \in Vals(FocusType[P]) : ReverseGetCall(P, a)
    \/ \E P \in Prisms, f \in 0..Len(flags) : GetOptionCall(P, f)
    \/ \E P \in Prisms : \E a \in Vals(FocusType[P]) : RoundTrip(P, a)

SpecPrism == Init /\ [][NextPrism]_vars

(***************************************************************************)
(* Optional getters.  The command is the one the flags were given to: its  *)
(* Flags are the flags of the heap, in order.                              *)
(***************************************************************************)
\* the first flag of the command with the given name, Nil when there is none
lookupFlag(F, name) ==
    LET found == {f \in 1..Len(F) : F[f].Name = name}
    IN  IF found = {} THEN Nil
        ELSE CHOOSE f \in found : \A g \in found : f <= g

\* cmd.IsSet(name): the flag exists and an argument has set it
IsSet(F, name) ==
    LET f == lookupFlag(F, name)
    IN  f # Nil /\ F[f].hasBeenSet

\* the zero value of a Go type
Zero(type) ==
    CASE type = "string" -> ""
      [] type = "bool" -> FALSE
      [] type = "float64" -> "0.0"
      [] type = "[]string" -> <<>>
      [] OTHER -> 0

\* cmd.String(name), cmd.Bool(name), ..: the value of the flag when it has
\* the type asked for, the zero value of that type otherwise
typedValue(type, F, name) ==
    LET f == lookupFlag(F, name)
    IN  IF f # Nil /\ Get(F, f).type = type THEN Get(F, f).val ELSE Zero(type)

Getters == {"GetString", "GetBool", "GetInt", "GetInt64", "GetFloat64",
            "GetDuration", "GetStringSlice"}

\* the type T of the Option[T] each getter returns
GetterType ==
    [GetString |-> "string", GetBool |-> "bool", GetInt |-> "int",
     GetInt64 |-> "int64", GetFloat64 |-> "float64",
     GetDuration |-> "time.Duration", GetStringSlice |-> "[]string"]

\* a getter that does not ask whether the flag was set
Getter_noIsSet(G, name, F) == Some(typedValue(GetterType[G], F, name))

\* GetString(name)(cmd) .. GetStringSlice(name)(cmd)
Getter(G, name, F) ==
    IF IsSet(F, name)
    THEN Some(typedValue(GetterType[G], F, name))
    ELSE None

\* the names the getters are asked for: the name of the flags and a name
\* no flag has
GetterNames == {"name", "other"}

GetterCall(G, name) ==
    /\ ~panicked
    /\ UNCHANGED <<actionVars, builderVars, lenses, threads>>
    /\ last' = [op |-> "Getter", getter |-> G, name |-> name,
                r |-> Getter(G, name, flags)]
    /\ UNCHANGED <<streets, addrs, flags, panicked>>

NextGetter ==
    \/ \E kind \in FlagTypes, name \in FlagNames :
          \E value \in Vals(valueType[kind]) : NewFlag(kind, name, value)
    \/ \E f \in 1..Len(flags) : PreParse(f)
    \/ \E f \in 1..Len(flags) :
          \E v \in Vals(valueType[flags[f].kind]) : ParseArg(f, v)
    \/ \E G \in Getters, name \in GetterNames : GetterCall(G, name)

SpecGetter == Init /\ [][NextGetter]_vars

(***************************************************************************)
(* Actions as effects.  An IOAction is a term: Of, Fail, FromActionFunc of *)
(* a native ActionFunc, an IOAction written by the caller, or Map, Chain   *)
(* or MapError around an IOAction.  Applying an IOAction to (ctx, cmd)     *)
(* gives an IOResult, a closure; executing the IOResult gives a Result.    *)
(* calls is the log of the functions of the caller that were invoked since *)
(* the action at hand was applied, each entry <<event, function, ctx, cmd, *)
(* argument>>.                                                             *)
(***************************************************************************)
MaxDepth == 1
MaxExecs == 2

VOID == 0
NoError == <<>>

Right(a) == [tag |-> "Right", v |-> a]
Left(e) == [tag |-> "Left", err |-> e]

Contexts == {"ctx1", "ctx2"}
Commands == {1, 2}

\* the native ActionFuncs of the caller and the error each returns: fErr
\* fails, fCmd fails on command 2 only; fCont, the one a continuation
\* promotes, fails under ctx2 only
ActionFuncs == {"fErr", "fCmd"}

nativeResult(f, ctx, cmd) ==
    CASE f = "fErr" -> <<"native error">>
      [] f = "fCmd" -> IF cmd = 2 THEN <<"bad command">> ELSE NoError
      [] f = "fCont" -> IF ctx = "ctx2" THEN <<"bad context">> ELSE NoError

\* the functions given to Map, Chain and MapError
double(a) == 2 * a
wrap(e) == <<"wrapped">> \o e

\* the continuations given to Chain: kOf succeeds with the double, kFrom
\* promotes the native fCont
Conts == {"kOf", "kFrom"}

Cont(k, a) ==
    CASE k = "kOf" -> [t |-> "Of", a |-> double(a)]
      [] k = "kFrom" -> [t |-> "From", f |-> "fCont"]

BaseActions ==
    {[t |-> "Of", a |-> 3], [t |-> "Fail", e |-> <<"boom">>],
     [t |-> "User", id |-> "u1"]}
       \cup {[t |-> "From", f |-> f] : f \in ActionFuncs}

Wrapped(S) ==
    {[t |-> "Map", g |-> "double", fa |-> fa] : fa \in S}
       \cup {[t |-> "Chain", k |-> k, fa |-> fa] : k \in Conts, fa \in S}
       \cup {[t |-> "MapError", h |-> "wrap", fa |-> fa] : fa \in S}

RECURSIVE ActionsOf(_)
ActionsOf(d) == IF d = 0 THEN BaseActions
                ELSE ActionsOf(d - 1) \cup Wrapped(ActionsOf(d - 1))

IOActions == ActionsOf(MaxDepth)

\* a FromActionFunc that calls f when it is applied
applyFrom_eager(f, ctx, cmd, L) ==
    [io |-> IF nativeResult(f, ctx, cmd) # NoError
            THEN [t |-> "ioLeft", e |-> nativeResult(f, ctx, cmd)]
            ELSE [t |-> "ioOf", a |-> VOID],
     log |-> Append(L, <<"call", f, ctx, cmd, <<>>>>)]

\* FromActionFunc(f)(ctx, cmd): a closure over f, ctx and cmd; f is not called
applyFrom(f, ctx, cmd, L) ==
    [io |-> [t |-> "thunkFrom", f |-> f, ctx |-> ctx, cmd |-> cmd], log |-> L]

\* a FromActionFunc that tests err == nil
fromResult_inverted(err) ==
    IF err = NoError THEN Left(err) ELSE Right(VOID)

\* the Result of the closure of FromActionFunc from the error f returned
fromResult(err) ==
    IF err # NoError THEN Left(err) ELSE Right(VOID)

\* ioresult.Chain: the continuation runs on the value of a success only
chainNext(k, r) ==
    IF r.tag = "Right" THEN [go |-> TRUE, a |-> r.v] ELSE [go |-> FALSE]

\* a MapError that hands the error on as it is
mapErrorFold_asIs(h, r) ==
    IF r.tag = "Left" THEN [called |-> FALSE, res |-> r]
    ELSE [called |-> FALSE, res |-> r]

\* the fold of MapError: f on the error of a failure, a success as it is
mapErrorFold(h, r) ==
    IF r.tag = "Left" THEN [called |-> TRUE, res |-> Left(wrap(r.err))]
    ELSE [called |-> FALSE, res |-> r]

RECURSIVE Apply(_, _, _, _), Exec(_, _)

\* a Chain that applies the action of the continuation to a context of its own
chainCont_ownCtx(k, a, ctx, cmd, L) == Apply(Cont(k, a), "ctx1", cmd, L)

\* the function Chain hands to ioresult.Chain: f(a)(ctx, cmd)
chainCont(k, a, ctx, cmd, L) == Apply(Cont(k, a), ctx, cmd, L)

\* fa(ctx, cmd): the IOResult, and the log after the application
Apply(fa, ctx, cmd, L) ==
    CASE fa.t = "Of" -> [io |-> [t |-> "ioOf", a |-> fa.a], log |-> L]
      [] fa.t = "Fail" -> [io |-> [t |-> "ioLeft", e |-> fa.e], log |-> L]
      [] fa.t = "From" -> applyFrom(fa.f, ctx, cmd, L)
      [] fa.t = "User" ->
            [io |-> [t |-> "thunkUser", id |-> fa.id],
             log |-> Append(L, <<"apply", fa.id, ctx, cmd, <<>>>>)]
      [] fa.t = "Map" ->
            LET inner == Apply(fa.fa, ctx, cmd, L)
            IN  [io |-> [t |-> "ioMap", g |-> fa.g, io |-> inner.io],
                 log |-> inner.log]
      [] fa.t = "Chain" ->
            LET inner == Apply(fa.fa, ctx, cmd, L)
            IN  [io |-> [t |-> "ioChain", k |-> fa.k, ctx |-> ctx,
                         cmd |-> cmd, io |-> inner.io],
                 log |-> inner.log]
      [] fa.t = "MapError" ->
            [io |-> [t |-> "thunkMapError", h |-> fa.h, fa |-> fa.fa,
                     ctx |-> ctx, cmd |-> cmd],
             log |-> L]

\* io(): the Result, and the log after the execution
Exec(c, L) ==
    CASE c.t = "ioOf" -> [res |-> Right(c.a), log |-> L]
      [] c.t = "ioLeft" -> [res |-> Left(c.e), log |-> L]
      [] c.t = "thunkFrom" ->
            [res |-> fromResult(nativeResult(c.f, c.ctx, c.cmd)),
             log |-> Append(L, <<"call", c.f, c.ctx, c.cmd, <<>>>>)]
      [] c.t = "thunkUser" ->
            [res |-> Right(VOID),
             log |-> Append(L, <<"exec", c.id, "-", 0, <<>>>>)]
      [] c.t = "ioMap" ->
            LET r == Exec(c.io, L)
            IN  IF r.res.tag = "Right"
                THEN [res |-> Right(double(r.res.v)),
                      log |-> Append(r.log, <<"map", c.g, "-", 0, <<r.res.v>>>>)]
                ELSE r
      [] c.t = "ioChain" ->
            LET r == Exec(c.io, L)
                nx == chainNext(c.k, r.res)
            IN  IF nx.go
                THEN LET ap == chainCont(c.k, nx.a, c.ctx, c.cmd,
                                         Append(r.log, <<"cont", c.k, "-", 0, <<nx.a>>>>))
                     IN  Exec(ap.io, ap.log)
                ELSE r
      [] c.t = "thunkMapError" ->
            LET ap == Apply(c.fa, c.ctx, c.cmd, L)
                r == Exec(ap.io, ap.log)
                fd == mapErrorFold(c.h, r.res)
            IN  [res |-> fd.res,
                 log |-> IF fd.called
                         THEN Append(r.log, <<"maperr", c.h, "-", 0, r.res.err>>)
                         ELSE r.log]

\* a fold that returns nil for every result
foldError_nil(res) == NoError

\* the fold of ToActionFunc: the error of a failure, nil for a success
foldError(res) == IF res.tag = "Left" THEN res.err ELSE NoError

\* ToActionFunc(f)(ctx, cmd): the error returned, and the log after the call
ToActionFunc(f, ctx, cmd, L) ==
    LET ap == Apply(f, ctx, cmd, L)
        r == Exec(ap.io, ap.log)
    IN  [err |-> foldError(r.res), log |-> r.log]

(***************************************************************************)
(* Calls of the actions.                                                   *)
(***************************************************************************)
\* the caller applies an IOAction and holds the IOResult
ApplyAction(fa, ctx, cmd) ==
    /\ ~panicked
    /\ LET ap == Apply(fa, ctx, cmd, <<>>)
       IN  /\ io' = [t |-> "held", fa |-> fa, ctx |-> ctx, cmd |-> cmd,
                     thunk |-> ap.io, execs |-> 0]
           /\ calls' = ap.log
    /\ last' = [op |-> "Apply"]
    /\ UNCHANGED <<opticVars, builderVars, lenses, threads>>

\* the caller executes the IOResult it holds, once more
ExecuteIO ==
    /\ ~panicked
    /\ io.t = "held"
    /\ io.execs < MaxExecs
    /\ LET r == Exec(io.thunk, calls)
       IN  /\ calls' = r.log
           /\ last' = [op |-> "Execute", res |-> r.res, before |-> calls]
    /\ io' = [io EXCEPT !.execs = @ + 1]
    /\ UNCHANGED <<opticVars, builderVars, lenses, threads>>

\* urfave/cli invokes the ActionFunc that ToActionFunc made of an IOAction
RunActionFunc(fa, ctx, cmd) ==
    /\ ~panicked
    /\ LET r == ToActionFunc(fa, ctx, cmd, <<>>)
       IN  /\ calls' = r.log
           /\ last' = [op |-> "ToActionFunc", fa |-> fa, ctx |-> ctx,
                       cmd |-> cmd, err |-> r.err]
    /\ io' = NoIO
    /\ UNCHANGED <<opticVars, builderVars, lenses, threads>>

NextAction ==
    \/ \E fa \in IOActions, ctx \in Contexts, cmd \in Commands :
          ApplyAction(fa, ctx, cmd)
    \/ ExecuteIO
    \/ \E fa \in IOActions, ctx \in Contexts, cmd \in Commands :
          RunActionFunc(fa, ctx, cmd)

SpecAction == Init /\ [][NextAction]_vars

(***************************************************************************)
(* The CommandBuilder.  cmds is the heap of the ucli.Command objects and   *)
(* builders the heap of the CommandBuilder objects, pointers are indices.  *)
(* trace keeps, for every builder, the name given to NewCommand and the    *)
(* calls made on the builder since; built is the set of the pairs          *)
(* <<builder, command returned by Build>>.                                 *)
(***************************************************************************)
MaxOps == 4

NoAction == [t |-> "nil"]

CommandNames == {"greet", "run"}
Usages == {"say hello", "a test command"}
Descriptions == {"greets a user", "runs"}
AliasArgs == {<<"g">>, <<"g", "hi">>}
FlagArgs == {<<"name">>}
NativeActions == {[t |-> "native", f |-> "fErr"]}
VoidActions == {[t |-> "Of", a |-> VOID]}
ValueActions == {[t |-> "Of", a |-> 3]}

\* &ucli.Command{Name: name}
newCommand(name) ==
    [Name |-> name, Usage |-> "", Description |-> "", Aliases |-> <<>>,
     Flags |-> <<>>, Commands |-> <<>>, Action |-> NoAction]

\* the ActionFunc ToActionFunc makes of an IOAction
toAction(fa) == [t |-> "ToActionFunc", fa |-> fa]

WithUsage(C, B, b, usage) == [C EXCEPT ![B[b].cmd].Usage = usage]

WithDescription(C, B, b, desc) == [C EXCEPT ![B[b].cmd].Description = desc]

\* a WithAliases that replaces the aliases
WithAliases_replace(C, B, b, aliases) ==
    [C EXCEPT ![B[b].cmd].Aliases = aliases]

WithAliases(C, B, b, aliases) ==
    [C EXCEPT ![B[b].cmd].Aliases = @ \o aliases]

WithFlags(C, B, b, fs) == [C EXCEPT ![B[b].cmd].Flags = @ \o fs]

WithCommands(C, B, b, cs) == [C EXCEPT ![B[b].cmd].Commands = @ \o cs]

WithAction(C, B, b, action) == [C EXCEPT ![B[b].cmd].Action = action]

WithIOAction(C, B, b, action) ==
    [C EXCEPT ![B[b].cmd].Action = toAction(action)]

WithIOActionOf(C, B, b, action) ==
    [C EXCEPT ![B[b].cmd].Action = toAction(action)]

\* a Build that returns a copy of the command
Build_copy(C, B, b) == [heap |-> Append(C, C[B[b].cmd]), ret |-> Len(C) + 1]

\* Build: the pointer the builder holds; the heap is not touched
Build(C, B, b) == [heap |-> C, ret |-> B[b].cmd]

\* the number of calls made so far: the NewCommand calls and the calls on
\* the builders
OpsDone == Len(builders)
             + Cardinality({<<b, i>> \in (1..Len(trace)) \X (1..MaxOps) :
                               i <= Len(trace[b].calls)})

NewCommandCall(name) ==
    /\ ~panicked
    /\ OpsDone < MaxOps
    /\ cmds' = Append(cmds, newCommand(name))
    /\ builders' = Append(builders, [cmd |-> Len(cmds) + 1])
    /\ trace' = Append(trace, [name |-> name, calls |-> <<>>])
    /\ last' = [op |-> "NewCommand", b |-> Len(builders) + 1]
    /\ UNCHANGED <<opticVars, actionVars, built, lenses, threads>>

\* a With* call on builder b: op(arg), with the heap it leaves
WithCall(b, op, arg, C) ==
    /\ ~panicked
    /\ OpsDone < MaxOps
    /\ cmds' = C
    /\ trace' = [trace EXCEPT ![b].calls = Append(@, [op |-> op, arg |-> arg])]
    /\ last' = [op |-> op, b |-> b]
    /\ UNCHANGED <<opticVars, actionVars, builders, built, lenses, threads>>

WithUsageCall(b, usage) ==
    WithCall(b, "WithUsage", usage, WithUsage(cmds, builders, b, usage))

WithDescriptionCall(b, desc) ==
    WithCall(b, "WithDescription", desc, WithDescription(cmds, builders, b, desc))

WithAliasesCall(b, aliases) ==
    WithCall(b, "WithAliases", aliases, WithAliases(cmds, builders, b, aliases))

WithFlagsCall(b, fs) ==
    WithCall(b, "WithFlags", fs, WithFlags(cmds, builders, b, fs))

WithCommandsCall(b, cs) ==
    WithCall(b, "WithCommands", cs, WithCommands(cmds, builders, b, cs))

WithActionCall(b, action) ==
    WithCall(b, "WithAction", action, WithAction(cmds, builders, b, action))

WithIOActionCall(b, action) ==
    WithCall(b, "WithIOAction", action, WithIOAction(cmds, builders, b, action))

WithIOActionOfCall(b, action) ==
    WithCall(b, "WithIOActionOf", action,
             WithIOActionOf(cmds, builders, b, action))

BuildCall(b) ==
    /\ ~panicked
    /\ OpsDone < MaxOps
    /\ LET r == Build(cmds, builders, b)
       IN  /\ cmds' = r.heap
           /\ built' = built \cup {<<b, r.ret>>}
           /\ last' = [op |-> "Build", b |-> b, ret |-> r.ret]
    /\ trace' = [trace EXCEPT ![b].calls = Append(@, [op |-> "Build", arg |-> <<>>])]
    /\ UNCHANGED <<opticVars, actionVars, builders, lenses, threads>>

NextBuilder ==
    \/ \E name \in CommandNames : NewCommandCall(name)
    \/ \E b \in 1..Len(builders) :
          \/ \E usage \in Usages : WithUsageCall(b, usage)
          \/ \E desc \in Descriptions : WithDescriptionCall(b, desc)
          \/ \E aliases \in AliasArgs : WithAliasesCall(b, aliases)
          \/ \E fs \in FlagArgs : WithFlagsCall(b, fs)
          \/ \E c \in 1..Len(cmds) : WithCommandsCall(b, <<c>>)
          \/ \E action \in NativeActions : WithActionCall(b, action)
          \/ \E action \in VoidActions : WithIOActionCall(b, action)
          \/ \E action \in ValueActions : WithIOActionOfCall(b, action)
          \/ BuildCall(b)

SpecBuilder == Init /\ [][NextBuilder]_vars

(***************************************************************************)
(* Composition of three lenses.  The fixtures nest two levels only, so the *)
(* three lenses are taken over wholes that nest three levels: a whole of   *)
(* level n is a pair of a whole of level n - 1 and a tag, a whole of level *)
(* 0 is a tag.  A lens is a record of its two functions; besides the lens  *)
(* of the first field there are two lenses that break the laws, one whose  *)
(* set also changes the tag and one whose set keeps the whole.             *)
(***************************************************************************)
Tags == {0, 1}

RECURSIVE Level(_)
Level(n) == IF n = 0 THEN Tags ELSE Level(n - 1) \X Tags

LensKinds == {"field", "flip", "keep"}

\* makeLens(get, set) on the wholes of level n, focused on their first field
makeLens(kind, n) ==
    [get |-> [s \in Level(n) |-> s[1]],
     set |-> [x \in Level(n - 1) \X Level(n) |->
                CASE kind = "field" -> <<x[1], x[2][2]>>
                  [] kind = "flip" -> <<x[1], 1 - x[2][2]>>
                  [] kind = "keep" -> x[2]],
     whole |-> Level(n),
     part |-> Level(n - 1)]

\* a compose whose set returns the whole as it is when the part is the one
\* the whole holds already
Compose_skip(outer, inner) ==
    [get |-> [s \in outer.whole |-> inner.get[outer.get[s]]],
     set |-> [x \in inner.part \X outer.whole |->
                IF inner.get[outer.get[x[2]]] = x[1] THEN x[2]
                ELSE outer.set[<<inner.set[<<x[1], outer.get[x[2]]>>], x[2]>>]],
     whole |-> outer.whole,
     part |-> inner.part]

\* compose(outer, inner): get = s -> inner.get(outer.get(s)),
\* set = b -> s -> outer.set(inner.set(b)(outer.get(s)))(s)
Compose(outer, inner) ==
    [get |-> [s \in outer.whole |-> inner.get[outer.get[s]]],
     set |-> [x \in inner.part \X outer.whole |->
                outer.set[<<inner.set[<<x[1], outer.get[x[2]]>>], x[2]>>]],
     whole |-> outer.whole,
     part |-> inner.part]

L1 == makeLens(lenses[1], 3)
L2 == makeLens(lenses[2], 2)
L3 == makeLens(lenses[3], 1)

\* (L1 composed with L2) composed with L3
ComposeLeft == Compose(Compose(L1, L2), L3)

\* L1 composed with (L2 composed with L3)
ComposeRight == Compose(L1, Compose(L2, L3))

\* three lenses are constructed
ChooseLenses(k1, k2, k3) ==
    /\ ~panicked
    /\ lenses' = <<k1, k2, k3>>
    /\ last' = [op |-> "ChooseLenses"]
    /\ UNCHANGED <<opticVars, actionVars, builderVars, threads>>

\* get through both compositions on the whole s
ComposedGet(s) ==
    /\ ~panicked
    /\ lenses # NoLenses
    /\ last' = [op |-> "ComposedGet", s |-> s,
                left |-> ComposeLeft.get[s], right |-> ComposeRight.get[s]]
    /\ UNCHANGED <<opticVars, actionVars, builderVars, lenses, threads>>

\* set through both compositions, of the part c on the whole s
ComposedSet(c, s) ==
    /\ ~panicked
    /\ lenses # NoLenses
    /\ last' = [op |-> "ComposedSet", c |-> c, s |-> s,
                left |-> ComposeLeft.set[<<c, s>>],
                right |-> ComposeRight.set[<<c, s>>]]
    /\ UNCHANGED <<opticVars, actionVars, builderVars, lenses, threads>>

NextCompose ==
    \/ \E k1, k2, k3 \in LensKinds : ChooseLenses(k1, k2, k3)
    \/ \E s \in Level(3) : ComposedGet(s)
    \/ \E c \in Level(0), s \in Level(3) : ComposedSet(c, s)

SpecCompose == Init /\ [][NextCompose]_vars

(***************************************************************************)
(* Threads that call get and set through streetLens on the shared whole    *)
(* &sampleStreet.  A get is one read.  A set takes three steps: the copy   *)
(* of the record, the setter on the copy, the return of the pointer.  No   *)
(* step of another thread writes the record that is copied, so the reads   *)
(* of the copy make one step.                                              *)
(***************************************************************************)
MaxThreads == 2

\* &sampleStreet, the whole the threads share
SharedStreet == 1

\* the parts the threads set
ThreadNames == {"Neue Str", "Neue Str."}

idleThread == [pc |-> "idle", a |-> "", cpy |-> Nil, ret |-> Nil, got |-> "-"]

\* go func() { .. }()
Spawn ==
    /\ ~panicked
    /\ Len(threads) < MaxThreads
    /\ threads' = Append(threads, idleThread)
    /\ UNCHANGED <<opticVars, last, actionVars, builderVars, lenses>>

\* thread t calls streetLens.Get(&sampleStreet)
ThreadGet(t) ==
    /\ ~panicked
    /\ threads[t].pc = "idle"
    /\ threads' = [threads EXCEPT ![t].got = streetLensGet(Heap, SharedStreet)]
    /\ UNCHANGED <<opticVars, last, actionVars, builderVars, lenses>>

\* thread t enters streetLens.Set(a)(&sampleStreet)
ThreadSet(t, a) ==
    /\ ~panicked
    /\ threads[t].pc = "idle"
    /\ threads' = [threads EXCEPT ![t].pc = "copy", ![t].a = a,
                                  ![t].ret = Nil]
    /\ UNCHANGED <<opticVars, last, actionVars, builderVars, lenses>>

\* cpy := *s
ThreadCopy(t) ==
    /\ ~panicked
    /\ threads[t].pc = "copy"
    /\ Len(streets) + Len(addrs) < MaxCells
    /\ LET cpy == copyStreet(Heap, SharedStreet)
       IN  /\ streets' = cpy.heap.st
           /\ addrs' = cpy.heap.ad
           /\ threads' = [threads EXCEPT ![t].pc = "assign", ![t].cpy = cpy.ret]
    /\ UNCHANGED <<flags, panicked, last, actionVars, builderVars, lenses>>

\* the setter on &cpy
ThreadAssign(t) ==
    /\ ~panicked
    /\ threads[t].pc = "assign"
    /\ LET res == SetName(Heap, threads[t].cpy, threads[t].a)
       IN  /\ streets' = res.heap.st
           /\ addrs' = res.heap.ad
           /\ threads' = [threads EXCEPT ![t].pc = "return", ![t].cpy = res.ret]
    /\ UNCHANGED <<flags, panicked, last, actionVars, builderVars, lenses>>

\* the set returns the pointer to the copy
ThreadReturn(t) ==
    /\ ~panicked
    /\ threads[t].pc = "return"
    /\ threads' = [threads EXCEPT ![t].pc = "idle", ![t].ret = threads[t].cpy,
                                  ![t].cpy = Nil]
    /\ UNCHANGED <<opticVars, last, actionVars, builderVars, lenses>>

NextThreads ==
    \/ Spawn
    \/ \E t \in 1..Len(threads) :
          \/ ThreadGet(t)
          \/ \E a \in ThreadNames : ThreadSet(t, a)
          \/ ThreadCopy(t)
          \/ ThreadAssign(t)
          \/ ThreadReturn(t)

SpecThreads == Init /\ [][NextThreads]_vars

(***************************************************************************)
(* Properties of the lenses.                                               *)
(***************************************************************************)
SetOps == {"streetLens.Set", "addrLens.Set", "streetName.Set"}

\* C1: Lens GetSet.  For streetLens and addrLens and every whole s,
\* set(get(s))(s) is equal to s under the equality of the pointed-to records.
C1_GetSet ==
    /\ \A s \in StreetPtrs(Heap) :
          LET r == streetLensSet(Heap, streetLensGet(Heap, s), s)
          IN  eqStreet(r.heap, r.ret, s)
    /\ \A s \in AddrPtrs(Heap) :
          LET r == addrLensSet(Heap, addrLensGet(Heap, s), s)
          IN  eqAddress(r.heap, r.ret, s)

\* a set of the name a street already has was made, and returned an equal street
C1_Witness ==
    /\ last.op = "streetLens.Set"
    /\ last.a = streets[last.s].name
    /\ last.r # last.s
    /\ eqStreet(Heap, last.r, last.s)

\* C2: Lens SetGet.  For streetLens and addrLens, every whole s and every
\* part a, get(set(a)(s)) equals a.
C2_SetGet ==
    /\ \A s \in StreetPtrs(Heap), a \in Names :
          LET r == streetLensSet(Heap, a, s)
          IN  streetLensGet(r.heap, r.ret) = a
    /\ \A s \in AddrPtrs(Heap), a \in StreetPtrs(Heap) \cup {Nil} :
          LET r == addrLensSet(Heap, a, s)
          IN  addrLensGet(r.heap, r.ret) = a

\* a set of a name other than the one the street had was made, and the
\* result holds the new name
C2_Witness ==
    /\ last.op = "streetLens.Set"
    /\ last.a # streets[last.s].name
    /\ streets[last.r].name = last.a

\* C3: Lens SetSet.  For streetLens and addrLens, every whole s and all
\* parts a1, a2, set(a2)(set(a1)(s)) equals set(a2)(s).
C3_SetSet ==
    /\ \A s \in StreetPtrs(Heap), a1 \in Names, a2 \in Names :
          LET r1 == streetLensSet(Heap, a1, s)
              r2 == streetLensSet(r1.heap, a2, r1.ret)
              r3 == streetLensSet(r2.heap, a2, s)
          IN  eqStreet(r3.heap, r2.ret, r3.ret)
    /\ \A s \in AddrPtrs(Heap) :
       \A a1 \in StreetPtrs(Heap) \cup {Nil}, a2 \in StreetPtrs(Heap) \cup {Nil} :
          LET r1 == addrLensSet(Heap, a1, s)
              r2 == addrLensSet(r1.heap, a2, r1.ret)
              r3 == addrLensSet(r2.heap, a2, s)
          IN  eqAddress(r3.heap, r2.ret, r3.ret)

\* a set was made on the result of an earlier set that had put another name
C3_Witness ==
    /\ last.op = "streetLens.Set"
    /\ last.s > 2
    /\ streets[last.s].name # streets[1].name
    /\ last.a # streets[last.s].name
    /\ streets[last.r] = [streets[1] EXCEPT !.name = last.a]

\* C4: Lens composition closure.  The composition of addrLens (outer) and
\* streetLens (inner) satisfies GetSet, SetGet and SetSet for every address
\* whose street is present and every name.
C4_ComposeLaws ==
    \A s \in AddrPtrs(Heap) :
       GetStreet(Heap, s) # Nil =>
          /\ LET r == streetNameSet(Heap, streetNameGet(Heap, s), s)
             IN  eqAddress(r.heap, r.ret, s)
          /\ \A a \in Names :
                LET r == streetNameSet(Heap, a, s)
                IN  streetNameGet(r.heap, r.ret) = a
          /\ \A a1 \in Names, a2 \in Names :
                LET r1 == streetNameSet(Heap, a1, s)
                    r2 == streetNameSet(r1.heap, a2, r1.ret)
                    r3 == streetNameSet(r2.heap, a2, s)
                IN  eqAddress(r3.heap, r2.ret, r3.ret)

\* a set through the composed lens was made on the result of an earlier set
\* through the composed lens
C4_Witness ==
    /\ last.op = "streetName.Set"
    /\ ~panicked
    /\ last.s > 1
    /\ addrs[last.s].street > 2
    /\ streets[addrs[last.r].street].name = last.a
    /\ streets[addrs[last.s].street].name # last.a

\* C5: Non-mutation.  No call through streetLens, addrLens or their
\* composition changes a record that existed before the call, and every set
\* returns a whole that did not exist before the call (for the composed lens
\* the street of the result is new as well).
C5_NonMutation ==
    [][ /\ Len(streets') >= Len(streets)
        /\ Len(addrs') >= Len(addrs)
        /\ \A p \in StreetPtrs(Heap) : streets'[p] = streets[p]
        /\ \A p \in AddrPtrs(Heap) : addrs'[p] = addrs[p]
        /\ (last'.op = "streetLens.Set") =>
              /\ last'.r \notin StreetPtrs(Heap)
              /\ last'.r \in 1..Len(streets')
        /\ (last'.op = "addrLens.Set") =>
              /\ last'.r \notin AddrPtrs(Heap)
              /\ last'.r \in 1..Len(addrs')
        /\ (last'.op = "streetName.Set" /\ ~panicked') =>
              /\ last'.r \notin AddrPtrs(Heap)
              /\ last'.r \in 1..Len(addrs')
              /\ addrs'[last'.r].street \notin StreetPtrs(Heap)
              /\ addrs'[last'.r].street \in 1..Len(streets')
      ]_vars

\* a new name was set through the composed lens on the sample address, and
\* the sample address and the sample street are what they were
C5_Witness ==
    /\ last.op = "streetName.Set"
    /\ ~panicked
    /\ last.s = 1
    /\ last.a # sampleStreet.name
    /\ addrs[1] = sampleAddress
    /\ streets[1] = sampleStreet

\* C6: Frame of set.  The result of set(a)(s) differs from s only in the
\* focused field: streetLens keeps num, addrLens keeps city, and the
\* composed lens keeps the city and the number of the street and replaces
\* only the name of the street.
C6_Frame ==
    /\ \A s \in StreetPtrs(Heap), a \in Names :
          LET r == streetLensSet(Heap, a, s)
          IN  r.heap.st[r.ret] = [streets[s] EXCEPT !.name = a]
    /\ \A s \in AddrPtrs(Heap), a \in StreetPtrs(Heap) \cup {Nil} :
          LET r == addrLensSet(Heap, a, s)
          IN  r.heap.ad[r.ret] = [addrs[s] EXCEPT !.street = a]
    /\ \A s \in AddrPtrs(Heap), b \in Names :
          GetStreet(Heap, s) # Nil =>
             LET r == streetNameSet(Heap, b, s)
                 res == r.heap.ad[r.ret]
             IN  /\ res.city = addrs[s].city
                 /\ res.street # Nil
                 /\ r.heap.st[res.street] =
                       [streets[addrs[s].street] EXCEPT !.name = b]

\* a new name was set through the composed lens: the result has the city
\* of the address and the number of its street
C6_Witness ==
    /\ last.op = "streetName.Set"
    /\ ~panicked
    /\ streets[addrs[last.s].street].name # last.a
    /\ addrs[last.r].city = addrs[last.s].city
    /\ streets[addrs[last.r].street].num = streets[addrs[last.s].street].num
    /\ streets[addrs[last.r].street].name = last.a

(***************************************************************************)
(* Properties of the flag prisms.                                          *)
(***************************************************************************)
\* the prism the documentation names for each of the seven flag variants
PrismOf ==
    [StringFlag |-> "AsString", BoolFlag |-> "AsBool", IntFlag |-> "AsInt",
     Int64Flag |-> "AsInt64", Float64Flag |-> "AsFloat64",
     DurationFlag |-> "AsDuration", StringSliceFlag |-> "AsStringSlice"]

IsOption(o) == o = None \/ (Len(o) = 2 /\ o[1] = "Some")

\* C7: Prism construct-inspect round trip.  For each of the seven prisms and
\* every part a of its focus type, GetOption(ReverseGet(a)) is Some(a) and
\* ReverseGet(a) is a flag of the variant of the prism; the round trips the
\* program has made returned Some of their argument.
C7_RoundTrip ==
    /\ \A P \in Prisms : \A a \in Vals(FocusType[P]) :
          LET rev == ReverseGet(P, flags, a)
          IN  /\ GetOption(P, rev.heap, rev.ret) = Some(a)
              /\ rev.heap[rev.ret].kind \in DOMAIN PrismOf
              /\ PrismOf[rev.heap[rev.ret].kind] = P
    /\ last.op = "RoundTrip" => last.r = Some(last.a)

\* a round trip through AsDuration was made and returned its argument
C7_Witness ==
    /\ last.op = "RoundTrip"
    /\ last.prism = "AsDuration"
    /\ last.a = 42
    /\ last.r = Some(42)
    /\ flags[last.rev].kind = "DurationFlag"

\* C8: Prism type rejection.  On a flag of one of the seven variants every
\* prism other than the one of that variant returns None, so at most one of
\* the seven prisms returns Some on any flag.
C8_TypeRejection ==
    \A f \in 1..Len(flags) :
       /\ flags[f].kind \in DOMAIN PrismOf =>
             \A P \in Prisms \ {PrismOf[flags[f].kind]} :
                GetOption(P, flags, f) = None
       /\ Cardinality({P \in Prisms : GetOption(P, flags, f) # None}) <= 1

\* AsInt64 was asked for a duration flag that holds 42 and returned None
C8_Witness ==
    /\ last.op = "GetOption"
    /\ ~panicked
    /\ last.prism = "AsInt64"
    /\ flags[last.s].kind = "DurationFlag"
    /\ Get(flags, last.s).val = 42
    /\ last.r = None

\* C9: GetOption is total.  Every call of GetOption, on the nil Flag as on
\* any other, returns Some or None and does not panic.
C9_GetOptionTotal ==
    last.op = "GetOption" => (~panicked /\ IsOption(last.r))

\* C10: Prism round trip on a matching variant.  If GetOption(s) is Some(a)
\* then ReverseGet(a) is a flag whose Get() is that of s, on which GetOption
\* returns what it returns on s, and which has only its default value set:
\* no name, and it is not applied.
C10_MatchingRoundTrip ==
    \A f \in 1..Len(flags) : \A P \in Prisms :
       GetOption(P, flags, f) # None =>
          LET a == GetOption(P, flags, f)[2]
              rev == ReverseGet(P, flags, a)
          IN  /\ Get(rev.heap, rev.ret) = Get(flags, f)
              /\ GetOption(P, rev.heap, rev.ret) = GetOption(P, flags, f)
              /\ rev.heap[rev.ret].Value = a
              /\ rev.heap[rev.ret].Name = ""
              /\ ~rev.heap[rev.ret].applied

\* GetOption returned Some(a) on a named flag whose parsed value a is not
\* its default: the flag rebuilt from a is another flag with the same Get()
C10_Witness ==
    /\ last.op = "GetOption"
    /\ ~panicked
    /\ last.prism = "AsString"
    /\ flags[last.s].Name = "name"
    /\ flags[last.s].applied
    /\ flags[last.s].cur # flags[last.s].Value
    /\ last.r = Some(flags[last.s].cur)
    /\ LET rev == ReverseGet("AsString", flags, last.r[2])
       IN  /\ rev.heap[rev.ret] # flags[last.s]
           /\ Get(rev.heap, rev.ret) = Get(flags, last.s)

(***************************************************************************)
(* Properties of the optional getters.                                     *)
(***************************************************************************)
\* C11 as stated: every getter, for every flag name, returns Some of the
\* current value of the flag if the flag was explicitly set, and None
\* otherwise.
C11_SomeIffSet ==
    \A G \in Getters, name \in GetterNames :
       LET f == lookupFlag(flags, name)
           r == Getter(G, name, flags)
       IN  IF f # Nil /\ flags[f].hasBeenSet
           THEN /\ r # None
                /\ GetterType[G] = Get(flags, f).type
                /\ r[2] = Get(flags, f).val
           ELSE r = None

\* C11 amended: a getter returns None if the flag was not explicitly set
\* (whatever its default); if it was set, Some of the current value of the
\* flag when the flag has the type of the getter, and Some of the zero
\* value of the getter's type when the flag has another type.
C11_SomeIffSetTyped ==
    \A G \in Getters, name \in GetterNames :
       LET f == lookupFlag(flags, name)
           r == Getter(G, name, flags)
       IN  IF f # Nil /\ flags[f].hasBeenSet
           THEN /\ r # None
                /\ IF GetterType[G] = Get(flags, f).type
                   THEN r[2] = Get(flags, f).val
                   ELSE r[2] = Zero(GetterType[G])
           ELSE r = None

\* GetString was asked for a string flag that an argument set to its
\* default "hello", and returned Some("hello")
C11_Witness ==
    /\ last.op = "Getter"
    /\ last.getter = "GetString"
    /\ last.name = "name"
    /\ Len(flags) >= 1
    /\ flags[1].kind = "StringFlag"
    /\ flags[1].Name = "name"
    /\ flags[1].hasBeenSet
    /\ flags[1].Value = "hello"
    /\ flags[1].cur = "hello"
    /\ last.r = Some("hello")


(***************************************************************************)
(* Properties of the actions.                                              *)
(***************************************************************************)
\* the entries of the log L that are calls of the native ActionFunc f
CallsOf(L, f) == {i \in 1..Len(L) : L[i][1] = "call" /\ L[i][2] = f}

\* C12: every invocation of ToActionFunc(f)(ctx, cmd) applies f to that ctx
\* and cmd and executes the IOResult it gets exactly once, and returns the
\* error of the result when it is a failure and nil when it is a success.
C12_ToActionFunc ==
    last.op = "ToActionFunc" =>
        LET ap == Apply(last.fa, last.ctx, last.cmd, <<>>)
            r == Exec(ap.io, ap.log)
        IN  /\ calls = r.log
            /\ r.res.tag = "Left" => last.err = r.res.err
            /\ r.res.tag = "Right" => last.err = NoError
            /\ last.fa.t = "User" =>
                  calls = << <<"apply", last.fa.id, last.ctx, last.cmd, <<>>>>,
                             <<"exec", last.fa.id, "-", 0, <<>>>> >>
            /\ last.fa.t = "From" =>
                  calls = << <<"call", last.fa.f, last.ctx, last.cmd, <<>>>> >>

C12_Witness ==
    /\ last.op = "ToActionFunc"
    /\ last.fa.t = "MapError"
    /\ last.fa.fa.t = "From"
    /\ last.err = <<"wrapped", "bad command">>

\* C13: executing FromActionFunc(f)(ctx, cmd) calls f with that ctx and cmd
\* and gives a success with Void when f returns nil and a failure with the
\* error f returned otherwise; ToActionFunc(FromActionFunc(f)) returns the
\* error f returns.
C13_FromActionFunc ==
    /\ (last.op = "Execute" /\ io.fa.t = "From") =>
          LET err == nativeResult(io.fa.f, io.ctx, io.cmd)
          IN  /\ calls = Append(last.before,
                                <<"call", io.fa.f, io.ctx, io.cmd, <<>>>>)
              /\ err = NoError =>
                    last.res.tag = "Right" /\ last.res.v = VOID
              /\ err # NoError =>
                    last.res.tag = "Left" /\ last.res.err = err
    /\ (last.op = "ToActionFunc" /\ last.fa.t = "From") =>
          last.err = nativeResult(last.fa.f, last.ctx, last.cmd)

C13_Witness ==
    /\ last.op = "Execute"
    /\ io.fa.t = "From"
    /\ io.fa.f = "fCmd"
    /\ last.res.tag = "Left"
    /\ last.res.err = <<"bad command">>

\* C14: executing Chain(f)(fa)(ctx, cmd): when fa fails with e the
\* continuation is not invoked and the result is the failure e; when fa
\* succeeds with a, the continuation is invoked with a after everything fa
\* did, f(a) is applied to ctx and cmd and executed, and its result is the
\* result of the chain.
C14_Chain ==
    (last.op = "Execute" /\ io.fa.t = "Chain") =>
        LET inner == Exec(io.thunk.io, last.before)
        IN  /\ inner.res.tag = "Left" =>
                  /\ last.res = inner.res
                  /\ calls = inner.log
            /\ inner.res.tag = "Right" =>
                  LET ap == Apply(Cont(io.fa.k, inner.res.v), io.ctx, io.cmd, <<>>)
                      r == Exec(ap.io, ap.log)
                  IN  /\ last.res = r.res
                      /\ calls = inner.log
                                    \o << <<"cont", io.fa.k, "-", 0,
                                            <<inner.res.v>>>> >>
                                    \o r.log

C14_Witness ==
    /\ last.op = "Execute"
    /\ io.fa.t = "Chain"
    /\ io.fa.fa.t = "From"
    /\ last.res = Left(<<"native error">>)
    /\ calls = << <<"call", "fErr", io.ctx, io.cmd, <<>>>> >>

\* C15: executing MapError(f)(fa)(ctx, cmd): when fa fails with e the result
\* is the failure f(e); when fa succeeds with a the result is the success a
\* and f is not invoked.
C15_MapError ==
    (last.op = "Execute" /\ io.fa.t = "MapError") =>
        LET ap == Apply(io.fa.fa, io.ctx, io.cmd, last.before)
            inner == Exec(ap.io, ap.log)
        IN  /\ inner.res.tag = "Left" =>
                  /\ last.res.tag = "Left"
                  /\ last.res.err = wrap(inner.res.err)
                  /\ calls = Append(inner.log, <<"maperr", io.fa.h, "-", 0,
                                                 inner.res.err>>)
            /\ inner.res.tag = "Right" =>
                  /\ last.res.tag = "Right"
                  /\ last.res.v = inner.res.v
                  /\ calls = inner.log

C15_Witness ==
    /\ last.op = "Execute"
    /\ io.fa.t = "MapError"
    /\ last.res.tag = "Left"
    /\ last.res.err = <<"wrapped", "boom">>

\* the native ActionFunc at the bottom of an action built with
\* FromActionFunc and wrapped with Map, Chain or MapError
RECURSIVE Underlying(_)
Underlying(fa) ==
    CASE fa.t = "From" -> fa.f
      [] fa.t \in {"Map", "Chain", "MapError"} -> Underlying(fa.fa)
      [] OTHER -> "none"

\* C19: applying an action built from FromActionFunc(f), wrapped or not,
\* does not call f; after n executions of the IOResult f has been called n
\* times, each time with the ctx and cmd of the application.
C19_Lazy ==
    (io.t = "held" /\ Underlying(io.fa) # "none") =>
        /\ Cardinality(CallsOf(calls, Underlying(io.fa))) = io.execs
        /\ \A i \in CallsOf(calls, Underlying(io.fa)) :
              calls[i][3] = io.ctx /\ calls[i][4] = io.cmd

C19_Witness ==
    /\ io.t = "held"
    /\ io.fa.t \in {"Map", "Chain", "MapError"}
    /\ Underlying(io.fa) = "fCmd"
    /\ io.execs = 2
    /\ Cardinality(CallsOf(calls, "fCmd")) = 2


(***************************************************************************)
(* Properties of the CommandBuilder.                                       *)
(***************************************************************************)
\* the index of the last call of tr whose operation is in ops, 0 if none
LastCall(tr, ops) ==
    LET I == {i \in 1..Len(tr) : tr[i].op \in ops}
    IN  IF I = {} THEN 0 ELSE CHOOSE i \in I : \A j \in I : j <= i

\* the arguments of the calls of op in tr, concatenated in call order
RECURSIVE ConcatOf(_, _)
ConcatOf(tr, op) ==
    IF tr = <<>> THEN <<>>
    ELSE (IF Head(tr).op = op THEN Head(tr).arg ELSE <<>>) \o ConcatOf(Tail(tr), op)

\* the command the calls of tr describe, when the calls in actionOps are the
\* ones that set the Action
Described(name, tr, actionOps) ==
    LET u == LastCall(tr, {"WithUsage"})
        d == LastCall(tr, {"WithDescription"})
        a == LastCall(tr, actionOps)
    IN  [Name |-> name,
         Usage |-> IF u = 0 THEN "" ELSE tr[u].arg,
         Description |-> IF d = 0 THEN "" ELSE tr[d].arg,
         Aliases |-> ConcatOf(tr, "WithAliases"),
         Flags |-> ConcatOf(tr, "WithFlags"),
         Commands |-> ConcatOf(tr, "WithCommands"),
         Action |-> IF a = 0 THEN NoAction
                    ELSE IF tr[a].op = "WithAction" THEN tr[a].arg
                    ELSE toAction(tr[a].arg)]

\* C16, as stated: after NewCommand(n) and any calls on the builder, the
\* command of the builder, which Build returns, has the Name n, the Usage,
\* Description and Action of the last WithUsage, WithDescription and
\* WithAction or WithIOAction call, and as Aliases, Flags and Commands the
\* arguments of the WithAliases, WithFlags and WithCommands calls in call
\* order; no call changes another field.
C16_Built ==
    /\ \A b \in 1..Len(builders) :
          cmds[builders[b].cmd] =
             Described(trace[b].name, trace[b].calls,
                       {"WithAction", "WithIOAction"})
    /\ last.op = "Build" =>
          cmds[last.ret] =
             Described(trace[last.b].name, trace[last.b].calls,
                       {"WithAction", "WithIOAction"})

\* C16, amended: the same, the Action being that of the last WithAction,
\* WithIOAction or WithIOActionOf call.
C16_BuiltWithOf ==
    /\ \A b \in 1..Len(builders) :
          cmds[builders[b].cmd] =
             Described(trace[b].name, trace[b].calls,
                       {"WithAction", "WithIOAction", "WithIOActionOf"})
    /\ last.op = "Build" =>
          cmds[last.ret] =
             Described(trace[last.b].name, trace[last.b].calls,
                       {"WithAction", "WithIOAction", "WithIOActionOf"})

C16_Witness ==
    /\ last.op = "Build"
    /\ cmds[last.ret].Name = "greet"
    /\ cmds[last.ret].Aliases = <<"g", "hi", "g">>
    /\ Len(trace[last.b].calls) = 3

\* C20: every Build on a builder returns the one command the builder holds,
\* the command returned shows the calls made on the builder after the Build,
\* and two builders hold different commands.
C20_Aliasing ==
    /\ \A r \in built :
          /\ r[2] = builders[r[1]].cmd
          /\ cmds[r[2]] =
                Described(trace[r[1]].name, trace[r[1]].calls,
                          {"WithAction", "WithIOAction", "WithIOActionOf"})
    /\ \A r1, r2 \in built : r1[1] = r2[1] => r1[2] = r2[2]
    /\ \A b1, b2 \in 1..Len(builders) :
          b1 # b2 => builders[b1].cmd # builders[b2].cmd

C20_Witness ==
    /\ Len(builders) = 2
    /\ \E r \in built :
          /\ Len(trace[r[1]].calls) = 2
          /\ trace[r[1]].calls[1].op = "Build"
          /\ trace[r[1]].calls[2].op = "WithUsage"
          /\ cmds[r[2]].Usage = "say hello"


(***************************************************************************)
(* Properties of the composition.                                          *)
(***************************************************************************)
\* C17: for three composable lenses, (L1 composed with L2) composed with L3
\* and L1 composed with (L2 composed with L3) return the same value for get
\* on every whole and the same whole for set on every part and whole.
C17_Associative ==
    last.op \in {"ComposedGet", "ComposedSet"} => last.left = last.right

C17_Witness ==
    /\ lenses = <<"field", "flip", "field">>
    /\ last.op = "ComposedSet"
    /\ last.c = 1
    /\ last.s = <<<<<<0, 0>>, 0>>, 0>>
    /\ last.left = <<<<<<1, 0>>, 1>>, 0>>
    /\ last.right = last.left


(***************************************************************************)
(* Properties of the threads.                                              *)
(***************************************************************************)
\* C18: under every interleaving of the threads' get and set calls through
\* streetLens on the shared whole, the whole a reader holds never shows a
\* new part, and every set returns what it returns when run alone: a
\* pointer of its own to the record of the whole with the part replaced.
C18_Concurrent ==
    /\ streets[SharedStreet] = sampleStreet
    /\ \A t \in 1..Len(threads) :
          /\ threads[t].got \in {"-", sampleStreet.name}
          /\ threads[t].ret # Nil =>
                /\ streets[threads[t].ret] =
                      [sampleStreet EXCEPT !.name = threads[t].a]
                /\ threads[t].ret # SharedStreet
                /\ \A u \in 1..Len(threads) :
                      u # t => /\ threads[u].ret # threads[t].ret
                               /\ threads[u].cpy # threads[t].ret

C18_Witness ==
    /\ Len(threads) = 2
    /\ threads[1].ret # Nil
    /\ threads[1].a = "Neue Str"
    /\ threads[2].pc = "return"
    /\ threads[2].a = "Neue Str."
    /\ threads[2].got = sampleStreet.name

====
